---------------------------- MODULE Spec2Model ----------------------------
(***************************************************************************)
(* A model of scripts/build/dbConvert.mjs: the dbConvert converter (the    *)
(* extract pipeline with its un-awaited pre-clean, folder partition,       *)
(* embedded nesting, folder path resolution, name sanitization and the     *)
(* per-document write loop) and the dbConvertCLI command-line adapter.     *)
(*                                                                         *)
(* Strings that the code inspects character by character (names) are       *)
(* sequences of one-character strings.  Document keys are sequences of     *)
(* tokens: the separators "!" and "." and words that contain neither.      *)
(* A path is a sequence of components below the file-system root.          *)
(***************************************************************************)
EXTENDS Naturals, Sequences, FiniteSets, TLC

(***************************************************************************)
(* Bounds of the model.                                                    *)
(***************************************************************************)
\* longest string handed to sanitizeFilename in SpecSanitize
MaxLen == 4
\* I/O failures injected in one behaviour (beyond those the state of the file
\* system itself causes)
MaxFaults == 1
\* consecutive runs of the same command line on the same source
MaxRuns == 2

(***************************************************************************)
(* JSON values of a document's name field.                                 *)
(***************************************************************************)
Str(s) == [t |-> "str", s |-> s]
Null == [t |-> "null", s |-> <<>>]
NumZero == [t |-> "num0", s |-> <<>>]
NumSeven == [t |-> "num", s |-> <<>>]
BoolTrue == [t |-> "bool", s |-> <<>>]

\* JavaScript truthiness of a name value: `!filename`
Truthy(v) == CASE v.t = "str" -> v.s # <<>>
               [] v.t = "null" -> FALSE
               [] v.t = "num0" -> FALSE
               [] OTHER -> TRUE

Whitespace == {" ", "\t"}
\* the character class [<>:"|?*\\/\s&]
InvalidChars == {"<", ">", ":", "\"", "|", "?", "*", "\\", "/", "&"} \cup Whitespace

UNNAMED == <<"u", "n", "n", "a", "m", "e", "d">>

\* .replace(/[<>:"|?*\\/\s&]+/g, '_'): every maximal run becomes one "_"
RECURSIVE ReplaceInvalidFrom(_, _)
ReplaceInvalidFrom(s, inRun) ==
    IF s = <<>> THEN <<>>
    ELSE IF Head(s) \in InvalidChars
         THEN (IF inRun THEN <<>> ELSE <<"_">>) \o ReplaceInvalidFrom(Tail(s), TRUE)
         ELSE <<Head(s)>> \o ReplaceInvalidFrom(Tail(s), FALSE)

ReplaceInvalid(s) == ReplaceInvalidFrom(s, FALSE)

\* .replace(/_{2,}/g, '_'): every maximal run of two or more "_" becomes one
RECURSIVE CollapseFrom(_, _)
CollapseFrom(s, inRun) ==
    IF s = <<>> THEN <<>>
    ELSE IF Head(s) = "_"
         THEN (IF inRun THEN <<>> ELSE <<"_">>) \o CollapseFrom(Tail(s), TRUE)
         ELSE <<Head(s)>> \o CollapseFrom(Tail(s), FALSE)

CollapseUnderscores(s) == CollapseFrom(s, FALSE)

RECURSIVE DropLeading(_, _)
DropLeading(s, cs) ==
    IF s # <<>> /\ Head(s) \in cs THEN DropLeading(Tail(s), cs) ELSE s

RECURSIVE DropTrailing(_, _)
DropTrailing(s, cs) ==
    IF s # <<>> /\ s[Len(s)] \in cs THEN DropTrailing(SubSeq(s, 1, Len(s) - 1), cs) ELSE s

\* .replace(/^_+|_+$/g, '')
StripUnderscores(s) == DropTrailing(DropLeading(s, {"_"}), {"_"})

\* String.prototype.trim
Trim(s) == DropTrailing(DropLeading(s, Whitespace), Whitespace)

\* a plausible slip: the two replace calls in the opposite order
sanitizeFilename_collapseFirst(v) ==
    IF ~Truthy(v) \/ v.t # "str" THEN UNNAMED
    ELSE LET r == Trim(StripUnderscores(ReplaceInvalid(CollapseUnderscores(v.s))))
         IN  IF r = <<>> THEN UNNAMED ELSE r

\* sanitizeFilename(filename): the sanitized name, a string
sanitizeFilename(v) ==
    IF ~Truthy(v) \/ v.t # "str" THEN UNNAMED
    ELSE LET r == Trim(StripUnderscores(CollapseUnderscores(ReplaceInvalid(v.s))))
         IN  IF r = <<>> THEN UNNAMED ELSE r

(***************************************************************************)
(* Document keys.  A key is a sequence of tokens; "folders" is always a    *)
(* token of its own, so `!foldersX!a` is <<"!", "folders", "X", "!", "a">>.*)
(***************************************************************************)
\* String.prototype.startsWith
StartsWith(key, prefix) ==
    Len(key) >= Len(prefix) /\ SubSeq(key, 1, Len(prefix)) = prefix

FOLDERS_PREFIX_EXTRACT == <<"!", "folders">>
FOLDERS_PREFIX_ORGANIZE == <<"!", "folders", "!">>

\* the position of the second "!" of a key that matches /^!([^!]+)!(.+)$/, 0 if
\* the key does not match
SecondBang(key) ==
    IF Len(key) < 4 \/ key[1] # "!" THEN 0
    ELSE LET bangs == {j \in 2..Len(key) : key[j] = "!"}
         IN  IF bangs = {} THEN 0
             ELSE LET j == CHOOSE x \in bangs : \A y \in bangs : x <= y
                  IN  IF j >= 3 /\ j < Len(key) THEN j ELSE 0

KeyMatches(key) == SecondBang(key) # 0
TypeSection(key) == SubSeq(key, 2, SecondBang(key) - 1)
IdSection(key) == SubSeq(key, SecondBang(key) + 1, Len(key))

\* String.prototype.split('.'): the parts between the "." tokens
RECURSIVE SplitDot(_, _)
SplitDot(s, cur) ==
    IF s = <<>> THEN <<cur>>
    ELSE IF Head(s) = "." THEN <<cur>> \o SplitDot(Tail(s), <<>>)
         ELSE SplitDot(Tail(s), Append(cur, Head(s)))

\* const [a, b] = section.split('.'): the n-th part, <<>> for undefined
Part(section, n) ==
    LET parts == SplitDot(section, <<>>)
    IN  IF n <= Len(parts) THEN parts[n] ELSE <<>>

\* typeSection.includes('.')
IncludesDot(section) == \E i \in 1..Len(section) : section[i] = "."

(***************************************************************************)
(* Documents and stores.  A document carries an identity (standing for the *)
(* rest of its body), a name and a folder reference ("" for none).         *)
(* A store is the parsed .db object: its entries in iteration order.       *)
(***************************************************************************)
Doc(id, name, folder) == [id |-> id, name |-> name, folder |-> folder]
Entry(key, doc) == [key |-> key, doc |-> doc]

\* documents[key]: the entry of a key in an ordered map, as a set (empty if absent)
Lookup(map, key) == {map[i].doc : i \in {j \in 1..Len(map) : map[j].key = key}}
HasKey(map, key) == \E i \in 1..Len(map) : map[i].key = key

\* extractFolders with the prefix organizeDocuments tests for
folderDocumentsOf_bang(documents) ==
    SelectSeq(documents, LAMBDA e : StartsWith(e.key, FOLDERS_PREFIX_ORGANIZE))

\* extractFolders: the folderDocuments map
folderDocumentsOf(documents) ==
    SelectSeq(documents, LAMBDA e : StartsWith(e.key, FOLDERS_PREFIX_EXTRACT))

\* organizeDocuments, first loop: is this entry an embedded document with both ids
IsEmbeddedEntry(e) ==
    /\ ~StartsWith(e.key, FOLDERS_PREFIX_ORGANIZE)
    /\ KeyMatches(e.key)
    /\ IncludesDot(TypeSection(e.key))
    /\ Part(IdSection(e.key), 1) # <<>>
    /\ Part(IdSection(e.key), 2) # <<>>

\* organizeDocuments, first loop: is this entry a top-level document
IsTopLevelEntry(e) ==
    /\ ~StartsWith(e.key, FOLDERS_PREFIX_ORGANIZE)
    /\ KeyMatches(e.key)
    /\ ~IncludesDot(TypeSection(e.key))

\* const parentKey = `!${parentType}!${parentId}`
ParentKey(key) ==
    <<"!">> \o Part(TypeSection(key), 1) \o <<"!">> \o Part(IdSection(key), 1)

\* embeddedDocuments[parentKey], mapped to the documents
EmbeddedList(documents, parentKey) ==
    LET items == SelectSeq(documents,
                           LAMBDA e : IsEmbeddedEntry(e) /\ ParentKey(e.key) = parentKey)
    IN  [i \in 1..Len(items) |-> items[i].doc]

\* organizeDocuments: topLevelDocuments in iteration order, each with the
\* embedded array the second loop gives it
organizeDocuments(documents) ==
    LET tops == SelectSeq(documents, IsTopLevelEntry)
    IN  [i \in 1..Len(tops) |->
            LET l == EmbeddedList(documents, tops[i].key)
            IN  [key |-> tops[i].key, doc |-> tops[i].doc,
                 hasEmbedded |-> l # <<>>, embedded |-> l]]

(***************************************************************************)
(* Folder path resolution.                                                 *)
(***************************************************************************)
FolderKey(id) == <<"!", "folders", "!", id>>

\* a plausible slip: push instead of unshift
RECURSIVE resolveLoop_push(_, _, _)
resolveLoop_push(currentFolderId, folderPath, folderDocuments) ==
    IF currentFolderId = "" THEN folderPath
    ELSE LET found == Lookup(folderDocuments, FolderKey(currentFolderId))
         IN  IF found = {} THEN folderPath
             ELSE LET folderDoc == CHOOSE d \in found : TRUE
                  IN  resolveLoop_push(folderDoc.folder,
                                       Append(folderPath, sanitizeFilename(folderDoc.name)),
                                       folderDocuments)

\* the while loop of resolveFolderPath: folderPath after the loop
RECURSIVE resolveLoop(_, _, _)
resolveLoop(currentFolderId, folderPath, folderDocuments) ==
    IF currentFolderId = "" THEN folderPath
    ELSE LET found == Lookup(folderDocuments, FolderKey(currentFolderId))
         IN  IF found = {} THEN folderPath
             ELSE LET folderDoc == CHOOSE d \in found : TRUE
                  IN  resolveLoop(folderDoc.folder,
                                  <<sanitizeFilename(folderDoc.name)>> \o folderPath,
                                  folderDocuments)

\* resolveFolderPath: the components of the returned path ('' is <<>>)
resolveFolderPath(document, folderDocuments) ==
    IF document.folder = "" THEN <<>>
    ELSE resolveLoop(document.folder, <<>>, folderDocuments)

\* the folder keys resolveFolderPath warns about for a document
RECURSIVE warnLoop(_, _)
warnLoop(currentFolderId, folderDocuments) ==
    IF currentFolderId = "" THEN {}
    ELSE LET found == Lookup(folderDocuments, FolderKey(currentFolderId))
         IN  IF found = {} THEN {FolderKey(currentFolderId)}
             ELSE warnLoop((CHOOSE d \in found : TRUE).folder, folderDocuments)

(***************************************************************************)
(* Paths.  path.join normalizes: "." is dropped and ".." removes the       *)
(* component before it.                                                    *)
(***************************************************************************)
DOT == <<".">>
DOTDOT == <<".", ".">>

RECURSIVE Normalize(_, _)
Normalize(todo, done) ==
    IF todo = <<>> THEN done
    ELSE IF Head(todo) = DOT THEN Normalize(Tail(todo), done)
    ELSE IF Head(todo) = DOTDOT
         THEN Normalize(Tail(todo),
                        IF done = <<>> THEN <<>> ELSE SubSeq(done, 1, Len(done) - 1))
    ELSE Normalize(Tail(todo), Append(done, Head(todo)))

\* path.join(base, ...components)
PathJoin(base, components) == Normalize(base \o components, <<>>)

\* process.cwd()
CWD == << <<"cwd">> >>

\* getPackPaths(packName).outputDir, and packFolderPath of deletePackFolder
OutputDir(packName) == PathJoin(CWD, << <<"packsrc">>, <<packName>> >>)

FOLDERS_FILE == <<"_folders.json">>

\* `${sanitizedName}.json`
JsonFilename(sanitizedName) == Append(sanitizedName, ".json")


(***************************************************************************)
(* The file system: a set of entries.  gen is the run that created the     *)
(* entry (0: it was there before the first run).  The root <<>> and the    *)
(* working directory always exist.                                         *)
(***************************************************************************)
NoDoc == Doc("", Null, "")
DirContent == [tag |-> "dir", doc |-> NoDoc, hasEmbedded |-> FALSE,
               embedded |-> <<>>, folders |-> <<>>]
StaleContent == [tag |-> "stale", doc |-> NoDoc, hasEmbedded |-> FALSE,
                 embedded |-> <<>>, folders |-> <<>>]
\* JSON.stringify(document, null, 2) of a top-level document
DocContent(top) == [tag |-> "doc", doc |-> top.doc, hasEmbedded |-> top.hasEmbedded,
                    embedded |-> top.embedded, folders |-> <<>>]
\* JSON.stringify(folderDocuments, null, 2)
FoldersContent(folderDocuments) ==
    [tag |-> "folders", doc |-> NoDoc, hasEmbedded |-> FALSE,
     embedded |-> <<>>, folders |-> folderDocuments]

FsEntry(path, kind, gen, content) ==
    [path |-> path, kind |-> kind, gen |-> gen, content |-> content]

IsPrefix(p, q) == Len(p) <= Len(q) /\ SubSeq(q, 1, Len(p)) = p
Prefixes(path) == {SubSeq(path, 1, n) : n \in 1..Len(path)}
Implicit(path) == IsPrefix(path, CWD)

IsDir(f, path) == Implicit(path) \/ \E e \in f : e.path = path /\ e.kind = "dir"
IsFile(f, path) == \E e \in f : e.path = path /\ e.kind = "file"
Exists(f, path) == IsDir(f, path) \/ IsFile(f, path)

\* fs.mkdir(path, { recursive: true }) can succeed
CanMkdirP(f, path) == \A q \in Prefixes(path) : ~IsFile(f, q)
MkdirP(f, path, gen) ==
    f \cup {FsEntry(q, "dir", gen, DirContent) : q \in {x \in Prefixes(path) : ~IsDir(f, x)}}

\* fs.writeFile(path, data) can succeed
CanWrite(f, path) ==
    /\ path # <<>>
    /\ IsDir(f, SubSeq(path, 1, Len(path) - 1))
    /\ ~IsDir(f, path)
WriteFile(f, path, content, gen) ==
    {e \in f : e.path # path} \cup {FsEntry(path, "file", gen, content)}

\* the entries fs.rm(root, { recursive: true }) may remove next: those at or
\* under root with nothing under them
Under(f, root) == {e \in f : IsPrefix(root, e.path)}
Removable(f, root) ==
    {e \in Under(f, root) : \A x \in f : x.path # e.path => ~IsPrefix(e.path, x.path)}

\* the output tree of a pack: what is at or under its output directory
Tree(f, root) == {[path |-> e.path, kind |-> e.kind, content |-> e.content] : e \in Under(f, root)}

(***************************************************************************)
(* Command lines.  An argument is its text and whether it starts with "--" *)
(* (then text is arg.slice(2)).                                            *)
(***************************************************************************)
Word(w) == [dashes |-> FALSE, text |-> w]
Opt(w) == [dashes |-> TRUE, text |-> w]

\* an option's value: true, or a string
OptTrue == [flag |-> TRUE, val |-> ""]
OptStr(s) == [flag |-> FALSE, val |-> s]

\* parseArgs: the loop from index i (1-based; the code's i + 1), options so far
\* as an ordered list of assignments
RECURSIVE parseArgsFrom(_, _, _)
parseArgsFrom(args, i, options) ==
    IF i > Len(args) THEN options
    ELSE IF args[i].dashes
         THEN IF i + 1 <= Len(args) /\ args[i + 1].text # "" /\ ~args[i + 1].dashes
              THEN parseArgsFrom(args, i + 2,
                                 Append(options, [key |-> args[i].text,
                                                  value |-> OptStr(args[i + 1].text)]))
              ELSE parseArgsFrom(args, i + 1,
                                 Append(options, [key |-> args[i].text, value |-> OptTrue]))
         ELSE parseArgsFrom(args, i + 1, options)

parseArgs(args) == parseArgsFrom(args, 2, <<>>)

\* options[key]: the last assignment, as a set (empty: undefined)
OptionOf(options, key) ==
    LET is == {i \in 1..Len(options) : options[i].key = key}
    IN  IF is = {} THEN {}
        ELSE {options[CHOOSE i \in is : \A j \in is : j <= i].value}

\* this.options.pack || 'actors'
PackOption(args) ==
    LET o == OptionOf(parseArgs(args), "pack")
    IN  IF o = {} THEN OptStr("actors") ELSE CHOOSE v \in o : TRUE

AVAILABLE_PACKS == {"actors", "items", "macros", "rollTables"}

\* a plausible slip: no validation at construction
validatePackName_none(packName) == TRUE

\* validatePackName does not throw
validatePackName(packName) == ~packName.flag /\ packName.val \in AVAILABLE_PACKS


(***************************************************************************)
(* The inputs: command lines, stores, and what is on disk before the run.  *)
(***************************************************************************)
N_Mon == <<"M", "o", "n">>
N_Gob == <<"G", "o", "b">>
N_In == <<"I", "n">>
N_Out == <<"O", "u", "t">>
N_a_b == <<"a", " ", "b">>
N_aub == <<"a", "_", "b">>
N_P == <<"P">>
N_X == <<"X">>

KFolder(id) == <<"!", "folders", "!", id>>
KActor(id) == <<"!", "actors", "!", id>>
KEmb(ptype, ctype, pid, cid) == <<"!", ptype, ".", ctype, "!", pid, ".", cid>>

\* one folder and one document in it
StoreRoundTrip ==
    << Entry(KFolder("F1"), Doc("f1", Str(N_Mon), "")),
       Entry(KActor("D1"), Doc("d1", Str(N_Gob), "F1")) >>

\* a chain of two folders, listed child first, and two documents whose names
\* sanitize to the same file name
StoreNested ==
    << Entry(KFolder("F1"), Doc("f1", Str(N_In), "F2")),
       Entry(KActor("D1"), Doc("d1", Str(N_a_b), "F1")),
       Entry(KFolder("F2"), Doc("f2", Str(N_Out), "")),
       Entry(KActor("D2"), Doc("d2", Str(N_aub), "F1")) >>

\* folder references that lead nowhere, on the first and on the second hop, and
\* a document without a name
StoreMissing ==
    << Entry(KActor("D1"), Doc("d1", Str(N_Gob), "F9")),
       Entry(KFolder("F1"), Doc("f1", Str(N_In), "F8")),
       Entry(KActor("D2"), Doc("d2", Null, "F1")) >>

\* embedded documents: two of a parent that exists, one orphan, one without a
\* child id, and a key that matches no pattern; no folder documents
StoreEmbedded ==
    << Entry(KEmb("actors", "items", "P1", "C1"), Doc("c1", Str(N_X), "")),
       Entry(KActor("P1"), Doc("p1", Str(N_P), "")),
       Entry(KEmb("actors", "items", "P9", "C3"), Doc("c3", Str(N_X), "")),
       Entry(KEmb("actors", "effects", "P1", "C2"), Doc("c2", Str(N_X), "")),
       Entry(<<"!", "actors", ".", "items", "!", "P1">>, Doc("c4", Str(N_X), "")),
       Entry(<<"bogus">>, Doc("b1", Str(N_X), "")) >>

\* keys that start with `!folders` but not with `!folders!`
StoreFoldersX ==
    << Entry(<<"!", "folders", "X", "!", "D1">>, Doc("d1", Str(N_Gob), "")),
       Entry(KEmb("folders", "items", "P1", "C1"), Doc("c1", Str(N_X), "")) >>

\* a folder whose name is ".."
StoreDots ==
    << Entry(KFolder("F1"), Doc("f1", Str(DOTDOT), "")),
       Entry(KActor("D1"), Doc("d1", Str(N_Gob), "F1")) >>

\* a folder whose name is "." and documents whose names are ".." and "."
StoreDotNames ==
    << Entry(KFolder("F1"), Doc("f1", Str(DOT), "")),
       Entry(KActor("D1"), Doc("d1", Str(DOTDOT), "F1")),
       Entry(KActor("D2"), Doc("d2", Str(DOT), "")) >>

StoreEmpty == <<>>

Stores == {StoreRoundTrip, StoreNested, StoreMissing, StoreEmbedded, StoreFoldersX,
           StoreDots, StoreDotNames, StoreEmpty}

ArgvNone == <<>>
ArgvExtract == <<Word("extract")>>
ArgvsOther ==
    { <<Word("help")>>, <<Opt("help")>>, <<Word("frobnicate")>>, <<Word("")>>,
      <<Word("extract"), Opt("pack"), Word("widgets")>>,
      <<Word("extract"), Opt("pack"), Word("Actors")>>,
      <<Word("extract"), Opt("pack")>>,
      <<Word("extract"), Opt("pack"), Opt("file"), Word("custom.db")>>,
      <<Word("extract"), Opt("pack"), Word("items"), Opt("pack"), Word("widgets")>>,
      <<Word("extract"), Opt("pack"), Word("items")>>,
      <<Word("extract"), Opt("pack"), Word("macros"), Opt("file"), Word("custom.db")>>,
      <<Word("extract"), Opt("pack"), Word("widgets"), Opt("pack"), Word("rollTables")>>,
      <<Word("extract"), Opt("help")>> }

\* what is on disk before the first run: nothing of the pack, or its output
\* directory with a file of an earlier extraction
FsAbsent == {}
FsStale(pack) ==
    { FsEntry(SubSeq(OutputDir(pack), 1, Len(CWD) + 1), "dir", 0, DirContent),
      FsEntry(OutputDir(pack), "dir", 0, DirContent),
      FsEntry(Append(OutputDir(pack), <<"old.json">>), "file", 0, StaleContent) }

Scenarios ==
    {[argv |-> ArgvExtract, store |-> s, dbPresent |-> TRUE, dbValid |-> TRUE, stale |-> st] :
        s \in Stores, st \in BOOLEAN}
    \cup
    {[argv |-> a, store |-> StoreRoundTrip, dbPresent |-> b[1], dbValid |-> b[2], stale |-> st] :
        a \in ArgvsOther \cup {ArgvNone, ArgvExtract},
        b \in {<<TRUE, TRUE>>, <<TRUE, FALSE>>, <<FALSE, TRUE>>}, st \in BOOLEAN}

(***************************************************************************)
(* The state.                                                              *)
(***************************************************************************)
VARIABLES
    argv,              \* process.argv.slice(2)
    store,             \* the object JSON.parse gives for the .db file
    dbPresent,         \* the .db file extract is pointed at (--file, or the pack's) exists
    dbValid,           \* the .db file holds JSON
    fs,                \* the file system
    fs0,               \* the file system before the first run
    proc,              \* "init", "running" or "exited"
    exitCode,          \* the exit code, once exited
    printed,           \* what was printed: "usage", "unknown", "error", "uncaught"
    fsTouched,         \* a file-system call has been made by this process
    packName,          \* this.packName of the converter ("" before construction)
    pc,                \* where extract is
    idx,               \* the write loop's position in topLevelDocuments
    extractedCount,    \* extractedCount of extractDocuments
    reported,          \* the count extractDocuments printed, if any
    del,               \* where the deletePackFolder call is
    faults,            \* I/O failures injected so far
    run,               \* which consecutive run this is
    prevTree,          \* the output tree when the previous run had ended
    log,               \* the writes extract has attempted in this run
    warned,            \* the folder keys warned about in this run
    rmNew,             \* the pre-clean removed something this run had created
    wroteAfterDelFail, \* extract changed the disk after its pre-clean had failed
    sanIn,             \* SpecSanitize: the value to sanitize
    sanOut             \* SpecSanitize: the results of the calls made so far

runVars == <<argv, store, dbPresent, dbValid, fs, fs0, proc, exitCode, printed, fsTouched,
             packName, pc, idx, extractedCount, reported, del, faults, run, prevTree,
             log, warned, rmNew, wroteAfterDelFail>>
sanVars == <<sanIn, sanOut>>
vars == <<runVars, sanVars>>

\* the switch of run(): which case this.command (args[0], undefined if there is
\* none) takes
runSwitch(args) ==
    IF Len(args) = 0 THEN "help"
    ELSE IF args[1] = Word("extract") THEN "extract"
    ELSE IF args[1] \in {Word("help"), Opt("help")} THEN "help"
    ELSE "default"

outputDir == OutputDir(packName)
folderDocuments == folderDocumentsOf(store)
topLevelDocuments == organizeDocuments(store)

\* the state before the process has run anything
Fresh ==
    /\ fs0 = fs
    /\ proc = "init"
    /\ exitCode = 0
    /\ printed = {}
    /\ fsTouched = FALSE
    /\ packName = ""
    /\ pc = "idle"
    /\ idx = 0
    /\ extractedCount = 0
    /\ reported = <<>>
    /\ del = "none"
    /\ faults = 0
    /\ run = 1
    /\ prevTree = {}
    /\ log = <<>>
    /\ warned = {}
    /\ rmNew = FALSE
    /\ wroteAfterDelFail = FALSE

Init ==
    /\ \E sc \in Scenarios :
          /\ argv = sc.argv
          /\ store = sc.store
          /\ dbPresent = sc.dbPresent
          /\ dbValid = sc.dbValid
          /\ fs = IF ~sc.stale THEN FsAbsent
                  ELSE IF PackOption(sc.argv).val \in AVAILABLE_PACKS
                       THEN FsStale(PackOption(sc.argv).val)
                       ELSE FsStale("actors")
    /\ Fresh
    /\ sanIn = Null
    /\ sanOut = <<>>


(***************************************************************************)
(* The command line: the module-level runner, run() and handleExtract(),   *)
(* up to the first await.                                                  *)
(***************************************************************************)
Exit(code, lines) ==
    /\ proc' = "exited"
    /\ exitCode' = code
    /\ printed' = printed \cup lines

\* `if (process.argv && process.argv.length > 2)` is false: nothing runs
RunNoArgs ==
    /\ proc = "init"
    /\ Len(argv) = 0
    /\ Exit(0, {})
    /\ UNCHANGED <<argv, store, dbPresent, dbValid, fs, fs0, fsTouched, packName, pc, idx,
                   extractedCount, reported, del, faults, run, prevTree, log, warned,
                   rmNew, wroteAfterDelFail, sanVars>>

RunHelp ==
    /\ proc = "init"
    /\ Len(argv) > 0
    /\ runSwitch(argv) = "help"
    /\ Exit(0, {"usage"})
    /\ UNCHANGED <<argv, store, dbPresent, dbValid, fs, fs0, fsTouched, packName, pc, idx,
                   extractedCount, reported, del, faults, run, prevTree, log, warned,
                   rmNew, wroteAfterDelFail, sanVars>>

RunUnknown ==
    /\ proc = "init"
    /\ Len(argv) > 0
    /\ runSwitch(argv) = "default"
    /\ Exit(1, {"unknown", "usage"})
    /\ UNCHANGED <<argv, store, dbPresent, dbValid, fs, fs0, fsTouched, packName, pc, idx,
                   extractedCount, reported, del, faults, run, prevTree, log, warned,
                   rmNew, wroteAfterDelFail, sanVars>>

\* handleExtract: new dbConvert(packName) throws; run() catches and exits
RunExtractInvalidPack ==
    /\ proc = "init"
    /\ Len(argv) > 0
    /\ runSwitch(argv) = "extract"
    /\ ~validatePackName(PackOption(argv))
    /\ Exit(1, {"error"})
    /\ UNCHANGED <<argv, store, dbPresent, dbValid, fs, fs0, fsTouched, packName, pc, idx,
                   extractedCount, reported, del, faults, run, prevTree, log, warned,
                   rmNew, wroteAfterDelFail, sanVars>>

\* handleExtract: the converter is constructed and extract runs to its first
\* await, fs.access(dbFile)
RunExtractStart ==
    /\ proc = "init"
    /\ Len(argv) > 0
    /\ runSwitch(argv) = "extract"
    /\ validatePackName(PackOption(argv))
    /\ packName' = PackOption(argv).val
    /\ proc' = "running"
    /\ pc' = "access"
    /\ fsTouched' = TRUE
    /\ UNCHANGED <<argv, store, dbPresent, dbValid, fs, fs0, exitCode, printed, idx,
                   extractedCount, reported, del, faults, run, prevTree, log, warned,
                   rmNew, wroteAfterDelFail, sanVars>>

(***************************************************************************)
(* extract.  Each action is the code between two awaits of the main task.  *)
(***************************************************************************)
\* extract throws: run()'s catch prints the error and calls process.exit(1)
Reject ==
    /\ pc' = "rejected"
    /\ Exit(1, {"error"})

\* an I/O call fails: because of what is on disk, or by an injected failure
Inject == faults < MaxFaults /\ faults' = faults + 1
NoInject == faults' = faults
Fails(can) == IF can THEN Inject ELSE NoInject

DiskChanged == wroteAfterDelFail' = (wroteAfterDelFail \/ del = "rejected")

LogEvent(op, key, path, content, ok) ==
    log' = Append(log, [op |-> op, key |-> key, path |-> path, content |-> content, ok |-> ok])

\* fs.access(dbFile) has answered; on success deletePackFolder is called without
\* await (it runs to its own fs.access) and fs.readFile is awaited
AccessDbDone ==
    /\ proc = "running" /\ pc = "access"
    /\ \/ /\ dbPresent
          /\ validatePackName(OptStr(packName))
          /\ del' = "access"
          /\ pc' = "read"
          /\ UNCHANGED <<proc, exitCode, printed>>
       \/ /\ ~dbPresent
          /\ Reject
          /\ UNCHANGED del
    /\ UNCHANGED <<argv, store, dbPresent, dbValid, fs, fs0, fsTouched, packName, idx,
                   extractedCount, reported, faults, run, prevTree, log, warned,
                   rmNew, wroteAfterDelFail, sanVars>>

\* fs.readFile has answered and JSON.parse has run; ensureDirectoryStructure
\* awaits its mkdir
ReadDone ==
    /\ proc = "running" /\ pc = "read"
    /\ \/ /\ dbValid
          /\ pc' = "ensure"
          /\ UNCHANGED <<proc, exitCode, printed>>
       \/ /\ ~dbValid
          /\ Reject
    /\ UNCHANGED <<argv, store, dbPresent, dbValid, fs, fs0, fsTouched, packName, idx,
                   extractedCount, reported, del, faults, run, prevTree, log, warned,
                   rmNew, wroteAfterDelFail, sanVars>>

\* the end of extractDocuments and of extract: the count is printed
Finish ==
    /\ reported' = <<extractedCount'>>
    /\ pc' = "resolved"
    /\ UNCHANGED <<idx, warned>>

\* the head of one iteration of the write loop, up to `await fs.mkdir`
BeginDoc(i) ==
    /\ idx' = i
    /\ pc' = "doc_mkdir"
    /\ warned' = warned \cup warnLoop(topLevelDocuments[i].doc.folder, folderDocuments)
    /\ UNCHANGED reported

\* extractDocuments from its start to the first await (or to the end of extract)
StartDocuments ==
    /\ extractedCount' = 0
    /\ IF Len(topLevelDocuments) = 0 THEN Finish ELSE BeginDoc(1)

\* the write loop moves on after document i
NextDocument(i) ==
    IF i < Len(topLevelDocuments) THEN BeginDoc(i + 1) ELSE Finish

\* the mkdir of ensureDirectoryStructure has answered; extractFolders runs to its
\* writeFile, or straight into extractDocuments when there are no folders
EnsureDone ==
    /\ proc = "running" /\ pc = "ensure"
    /\ \/ /\ CanMkdirP(fs, outputDir)
          /\ NoInject
          /\ fs' = MkdirP(fs, outputDir, run)
          /\ DiskChanged
          /\ IF Len(folderDocuments) > 0
             THEN pc' = "folders" /\ UNCHANGED <<idx, warned, reported, extractedCount>>
             ELSE StartDocuments
          /\ UNCHANGED <<proc, exitCode, printed>>
       \/ /\ Fails(CanMkdirP(fs, outputDir))
          /\ Reject
          /\ UNCHANGED <<fs, idx, warned, reported, extractedCount, wroteAfterDelFail>>
    /\ UNCHANGED <<argv, store, dbPresent, dbValid, fs0, fsTouched, packName,
                   del, run, prevTree, log, rmNew, sanVars>>

foldersFilePath == PathJoin(outputDir, <<FOLDERS_FILE>>)

\* the writeFile of _folders.json has answered; extractDocuments starts
FoldersWriteDone ==
    /\ proc = "running" /\ pc = "folders"
    /\ \/ /\ CanWrite(fs, foldersFilePath)
          /\ NoInject
          /\ fs' = WriteFile(fs, foldersFilePath, FoldersContent(folderDocuments), run)
          /\ DiskChanged
          /\ LogEvent("folders", <<>>, foldersFilePath, FoldersContent(folderDocuments), TRUE)
          /\ StartDocuments
          /\ UNCHANGED <<proc, exitCode, printed>>
       \/ /\ Fails(CanWrite(fs, foldersFilePath))
          /\ LogEvent("folders", <<>>, foldersFilePath, FoldersContent(folderDocuments), FALSE)
          /\ Reject
          /\ UNCHANGED <<fs, idx, warned, reported, extractedCount, wroteAfterDelFail>>
    /\ UNCHANGED <<argv, store, dbPresent, dbValid, fs0, fsTouched, packName,
                   del, run, prevTree, rmNew, sanVars>>

\* fullFolderPath and fullFilePath of the document at position i
fullFolderPath(i) ==
    PathJoin(outputDir, resolveFolderPath(topLevelDocuments[i].doc, folderDocuments))
fullFilePath(i) ==
    PathJoin(fullFolderPath(i),
             <<JsonFilename(sanitizeFilename(topLevelDocuments[i].doc.name))>>)

\* a plausible slip: no try/catch around one document, the error leaves extract
CatchDocError_rethrow ==
    /\ Reject
    /\ UNCHANGED <<idx, warned, reported, extractedCount>>

\* the catch block of the write loop: the error is printed and the loop goes on
CatchDocError ==
    /\ extractedCount' = extractedCount
    /\ NextDocument(idx)
    /\ UNCHANGED <<proc, exitCode, printed>>

\* the mkdir of one document has answered
DocMkdirDone ==
    /\ proc = "running" /\ pc = "doc_mkdir"
    /\ \/ /\ CanMkdirP(fs, fullFolderPath(idx))
          /\ NoInject
          /\ fs' = MkdirP(fs, fullFolderPath(idx), run)
          /\ DiskChanged
          /\ pc' = "doc_write"
          /\ UNCHANGED <<proc, exitCode, printed, idx, warned, reported, log, extractedCount>>
       \/ /\ Fails(CanMkdirP(fs, fullFolderPath(idx)))
          /\ LogEvent("mkdir", topLevelDocuments[idx].key, fullFolderPath(idx),
                      DirContent, FALSE)
          /\ CatchDocError
          /\ UNCHANGED <<fs, wroteAfterDelFail>>
    /\ UNCHANGED <<argv, store, dbPresent, dbValid, fs0, fsTouched, packName,
                   del, run, prevTree, rmNew, sanVars>>

\* the writeFile of one document has answered
DocWriteDone ==
    /\ proc = "running" /\ pc = "doc_write"
    /\ \/ /\ CanWrite(fs, fullFilePath(idx))
          /\ NoInject
          /\ fs' = WriteFile(fs, fullFilePath(idx), DocContent(topLevelDocuments[idx]), run)
          /\ DiskChanged
          /\ LogEvent("doc", topLevelDocuments[idx].key, fullFilePath(idx),
                      DocContent(topLevelDocuments[idx]), TRUE)
          /\ extractedCount' = extractedCount + 1
          /\ NextDocument(idx)
          /\ UNCHANGED <<proc, exitCode, printed>>
       \/ /\ Fails(CanWrite(fs, fullFilePath(idx)))
          /\ LogEvent("doc", topLevelDocuments[idx].key, fullFilePath(idx),
                      DocContent(topLevelDocuments[idx]), FALSE)
          /\ CatchDocError
          /\ UNCHANGED <<fs, wroteAfterDelFail>>
    /\ UNCHANGED <<argv, store, dbPresent, dbValid, fs0, fsTouched, packName,
                   del, run, prevTree, rmNew, sanVars>>


(***************************************************************************)
(* deletePackFolder, called without await: a task of its own, whose file   *)
(* system calls interleave with those of extract.                          *)
(***************************************************************************)
\* fs.access(packFolderPath) has answered: the folder is there (fs.rm starts),
\* it is not (ENOENT is logged), or the call fails otherwise (the promise of
\* deletePackFolder is rejected, and nothing handles it)
DelAccessDone ==
    /\ proc = "running" /\ del = "access"
    /\ \/ /\ Exists(fs, outputDir)
          /\ NoInject
          /\ del' = "rm"
       \/ /\ ~Exists(fs, outputDir)
          /\ NoInject
          /\ del' = "absent"
       \/ /\ Inject
          /\ del' = "rejected"
    /\ UNCHANGED <<argv, store, dbPresent, dbValid, fs, fs0, proc, exitCode, printed,
                   fsTouched, packName, pc, idx, extractedCount, reported, run, prevTree,
                   log, warned, rmNew, wroteAfterDelFail, sanVars>>

\* fs.rm(packFolderPath, { recursive: true, force: true }) removes one more
\* entry, the folder itself last; with nothing left it is done
DelRmStep ==
    /\ proc = "running" /\ del = "rm"
    /\ IF Under(fs, outputDir) = {}
       THEN /\ del' = "removed"
            /\ UNCHANGED <<fs, rmNew>>
       ELSE \E e \in Removable(fs, outputDir) :
                /\ fs' = fs \ {e}
                /\ rmNew' = (rmNew \/ e.gen = run)
                /\ del' = IF e.path = outputDir THEN "removed" ELSE "rm"
    /\ UNCHANGED <<argv, store, dbPresent, dbValid, fs0, proc, exitCode, printed,
                   fsTouched, packName, pc, idx, extractedCount, reported, faults, run,
                   prevTree, log, warned, wroteAfterDelFail, sanVars>>

\* fs.rm fails (EACCES, EBUSY, ...): deletePackFolder throws, nothing handles it
DelRmFail ==
    /\ proc = "running" /\ del = "rm"
    /\ Inject
    /\ del' = "rejected"
    /\ UNCHANGED <<argv, store, dbPresent, dbValid, fs, fs0, proc, exitCode, printed,
                   fsTouched, packName, pc, idx, extractedCount, reported, run, prevTree,
                   log, warned, rmNew, wroteAfterDelFail, sanVars>>

(***************************************************************************)
(* The process.                                                            *)
(***************************************************************************)
\* the runtime ends the process on the unhandled rejection (the default of
\* current Node.js; older ones only warn, which is this action not taken)
UnhandledRejection ==
    /\ proc = "running" /\ del = "rejected"
    /\ Exit(1, {"uncaught"})
    /\ UNCHANGED <<argv, store, dbPresent, dbValid, fs, fs0, fsTouched, packName, pc, idx,
                   extractedCount, reported, del, faults, run, prevTree, log, warned,
                   rmNew, wroteAfterDelFail, sanVars>>

\* extract has resolved and no file-system call is pending: the process ends
ProcessExit ==
    /\ proc = "running" /\ pc = "resolved"
    /\ del \in {"absent", "removed", "rejected"}
    /\ Exit(0, {})
    /\ UNCHANGED <<argv, store, dbPresent, dbValid, fs, fs0, fsTouched, packName, pc, idx,
                   extractedCount, reported, del, faults, run, prevTree, log, warned,
                   rmNew, wroteAfterDelFail, sanVars>>

\* the same command line is run again on the unchanged source
Rerun ==
    /\ proc = "exited" /\ exitCode = 0 /\ pc = "resolved"
    /\ run < MaxRuns
    /\ run' = run + 1
    /\ prevTree' = Tree(fs, outputDir)
    /\ proc' = "init"
    /\ printed' = {}
    /\ fsTouched' = FALSE
    /\ packName' = ""
    /\ pc' = "idle"
    /\ idx' = 0
    /\ extractedCount' = 0
    /\ reported' = <<>>
    /\ del' = "none"
    /\ log' = <<>>
    /\ warned' = {}
    /\ rmNew' = FALSE
    /\ wroteAfterDelFail' = FALSE
    /\ UNCHANGED <<argv, store, dbPresent, dbValid, fs, fs0, exitCode, faults, sanVars>>

Next ==
    \/ RunNoArgs
    \/ RunHelp
    \/ RunUnknown
    \/ RunExtractInvalidPack
    \/ RunExtractStart
    \/ AccessDbDone
    \/ ReadDone
    \/ EnsureDone
    \/ FoldersWriteDone
    \/ DocMkdirDone
    \/ DocWriteDone
    \/ DelAccessDone
    \/ DelRmStep
    \/ DelRmFail
    \/ UnhandledRejection
    \/ ProcessExit
    \/ Rerun

Spec == Init /\ [][Next]_vars


(***************************************************************************)
(* sanitizeFilename on its own: the function is applied to a value, and    *)
(* then to its own result.                                                 *)
(***************************************************************************)
SanAlphabet == {"a", "_", " ", "/", "."}
SanStrings == UNION {[1..n -> SanAlphabet] : n \in 0..MaxLen}
SanInputs == {Str(s) : s \in SanStrings} \cup {Null, NumZero, NumSeven, BoolTrue}

InitSanitize ==
    /\ sanIn \in SanInputs
    /\ sanOut = <<>>
    /\ argv = ArgvNone
    /\ store = StoreEmpty
    /\ dbPresent = TRUE
    /\ dbValid = TRUE
    /\ fs = FsAbsent
    /\ Fresh

\* sanitizeFilename(x)
SanitizeFirst ==
    /\ sanOut = <<>>
    /\ sanOut' = <<sanitizeFilename(sanIn)>>
    /\ UNCHANGED <<sanIn, runVars>>

\* sanitizeFilename(sanitizeFilename(x))
SanitizeAgain ==
    /\ Len(sanOut) = 1
    /\ sanOut' = Append(sanOut, sanitizeFilename(Str(sanOut[1])))
    /\ UNCHANGED <<sanIn, runVars>>

NextSanitize == SanitizeFirst \/ SanitizeAgain

SpecSanitize == InitSanitize /\ [][NextSanitize]_vars

(***************************************************************************)
(* Notions the claims use, stated on the store itself.                     *)
(***************************************************************************)
\* topLevelDocuments positions the write loop has finished with
Processed(i) ==
    \/ pc = "resolved"
    \/ pc \in {"doc_mkdir", "doc_write"} /\ i < idx

\* the positions of log that are writes of _folders.json, writes of a document
\* file, and the mkdir or write of the document of a key
FolderWrites == {i \in 1..Len(log) : log[i].op = "folders"}
DocWrites == {i \in 1..Len(log) : log[i].op = "doc"}
EventsOf(key) == {i \in 1..Len(log) : log[i].op \in {"mkdir", "doc"} /\ log[i].key = key}

\* a key of the form !<type>!<id>, no "." in the type
IsContentKey(key) ==
    /\ Len(key) >= 4 /\ key[1] = "!" /\ key[3] = "!" /\ key[2] \notin {"!", "."}
    /\ key[2] # "folders"

\* a key of the form !<parentType>.<childType>!<parentId>.<childId>
IsEmbeddedKey(key) ==
    /\ Len(key) = 8
    /\ key[1] = "!" /\ key[3] = "." /\ key[5] = "!" /\ key[7] = "."
    /\ \A i \in {2, 4, 6, 8} : key[i] \notin {"!", "."}

ParentOf(key) == <<"!", key[2], "!", key[6]>>

ContentParentExists(key) ==
    IsContentKey(ParentOf(key)) /\ HasKey(store, ParentOf(key))

\* the bodies of the embedded children of a parent key, in source order
ChildrenOf(parentKey) ==
    LET es == SelectSeq(store, LAMBDA e : IsEmbeddedKey(e.key) /\ ParentOf(e.key) = parentKey)
    IN  [i \in 1..Len(es) |-> es[i].doc]

\* the documents a written file holds
DocsIn(content) ==
    {content.doc} \cup {content.embedded[i] : i \in 1..Len(content.embedded)}
    \cup {content.folders[i].doc : i \in 1..Len(content.folders)}

\* the records with the prefix `!folders!`
BangFolders == SelectSeq(store, LAMBDA e : StartsWith(e.key, <<"!", "folders", "!">>))

\* the folders above a folder id, nearest first, up to the first id that has no
\* `!folders!<id>` record
RECURSIVE ChainUp(_)
ChainUp(id) ==
    IF id = "" \/ ~HasKey(store, <<"!", "folders", "!", id>>) THEN <<>>
    ELSE LET f == CHOOSE d \in Lookup(store, <<"!", "folders", "!", id>>) : TRUE
         IN  <<f>> \o ChainUp(f.folder)

\* the id at which the walk up from a folder id stops ("" at the root)
RECURSIVE ChainEnd(_)
ChainEnd(id) ==
    IF id = "" \/ ~HasKey(store, <<"!", "folders", "!", id>>) THEN id
    ELSE ChainEnd((CHOOSE d \in Lookup(store, <<"!", "folders", "!", id>>) : TRUE).folder)

\* the sanitized names of the chain, outermost first
ExpectedFolderPath(doc) ==
    LET up == ChainUp(doc.folder)
    IN  [i \in 1..Len(up) |-> sanitizeFilename(up[Len(up) + 1 - i].name)]

DocOfKey(key) == CHOOSE d \in Lookup(store, key) : TRUE


(***************************************************************************)
(* The claims.                                                             *)
(***************************************************************************)

\* C1: the pre-clean of a run has completed before the run produces output:
\* nothing the current run has created (the output root, _folders.json, a
\* document's directory or file) is ever removed by that run's own pre-clean.
C1_PreCleanBeforeOutput == ~rmNew

\* C2: a failure of the pre-clean other than the directory being absent makes
\* extract fail (it never resolves, and it changes nothing on disk after the
\* failure); an absent directory alone never makes extract fail.
C2_DeleteFailureIsFatal ==
    /\ del = "rejected" => pc # "resolved" /\ ~wroteAfterDelFail
    /\ del = "absent" /\ dbValid /\ faults = 0 => pc # "rejected"

\* C3: for every record with an embedded key: when its parent content document
\* exists, every output written for that parent carries an embedded array equal
\* to the bodies of the parent's embedded children in source order; when it does
\* not, no file written holds the child's body, and the run raises no error of
\* its own.
C3_EmbeddedNesting ==
    \A k \in 1..Len(store) :
        IsEmbeddedKey(store[k].key) =>
            IF ContentParentExists(store[k].key)
            THEN \A i \in DocWrites \cap EventsOf(ParentOf(store[k].key)) :
                    /\ log[i].content.hasEmbedded
                    /\ log[i].content.embedded = ChildrenOf(ParentOf(store[k].key))
            ELSE /\ \A i \in 1..Len(log) : store[k].doc \notin DocsIn(log[i].content)
                 /\ dbValid /\ faults = 0 /\ del = "absent" => pc # "rejected"

\* C4: _folders.json is written if and only if the store has a key with the
\* prefix `!folders!`, it then holds exactly the records with that prefix, and
\* no record is both in _folders.json and written as a content document.
C4_FoldersFileExactlyBangFolders ==
    /\ pc \in {"doc_mkdir", "doc_write", "resolved"} =>
          ((FolderWrites # {}) <=> (BangFolders # <<>>))
    /\ \A i \in FolderWrites :
          /\ log[i].content.folders = BangFolders
          /\ \A j \in DocWrites :
                ~HasKey(log[i].content.folders, log[j].key)

\* C5: every content document is written at the output root followed by the
\* sanitized names of its folder chain, outermost first; a folder id without a
\* record ends the chain there with a warning, the document is still written at
\* the path reached so far (when the disk takes the write), and extract does
\* not fail because of it.
C5_FolderPathOutermostFirst ==
    /\ \A i \in 1..Len(log) :
          /\ log[i].op = "mkdir" =>
                log[i].path = PathJoin(OutputDir(packName),
                                       ExpectedFolderPath(DocOfKey(log[i].key)))
          /\ log[i].op = "doc" =>
                /\ log[i].path =
                      PathJoin(OutputDir(packName),
                               ExpectedFolderPath(DocOfKey(log[i].key))
                               \o <<JsonFilename(sanitizeFilename(DocOfKey(log[i].key).name))>>)
                /\ faults = 0 /\ del = "absent" => log[i].ok
    /\ \A i \in 1..Len(topLevelDocuments) :
          Processed(i) =>
             /\ EventsOf(topLevelDocuments[i].key) # {}
             /\ ChainEnd(topLevelDocuments[i].doc.folder) # "" =>
                   <<"!", "folders", "!", ChainEnd(topLevelDocuments[i].doc.folder)>> \in warned
    /\ pc = "rejected" => idx = 0

\* a document whose chain has a folder and then a dangling reference has been
\* written, below that folder
C5_Witness ==
    /\ pc = "resolved"
    /\ \E i \in 1..Len(log) :
          /\ log[i].op = "doc" /\ log[i].ok
          /\ ChainEnd(DocOfKey(log[i].key).folder) # ""
          /\ ExpectedFolderPath(DocOfKey(log[i].key)) # <<>>
          /\ IsFile(fs, log[i].path)

\* C6: once the same command line has run twice in succession on the same
\* source (no I/O failure injected), the output tree after the second run is
\* the output tree after the first.
C6_RerunSameTree ==
    run >= 2 /\ proc = "exited" /\ exitCode = 0 /\ pc = "resolved" /\ faults = 0
        => Tree(fs, outputDir) = prevTree

\* C7: sanitizeFilename is idempotent, and the empty string and every
\* non-string value give `unnamed`.
C7_SanitizeIdempotent ==
    /\ Len(sanOut) = 2 => sanOut[2] = sanOut[1]
    /\ Len(sanOut) >= 1 /\ (sanIn.t # "str" \/ sanIn.s = <<>>) => sanOut[1] = UNNAMED

\* a string that sanitization changes, into something other than the fallback,
\* has been sanitized twice
C7_Witness ==
    /\ Len(sanOut) = 2
    /\ sanIn.t = "str"
    /\ sanOut[1] # sanIn.s
    /\ sanOut[1] # UNNAMED
    /\ Len(sanOut[1]) >= 3

\* C8: a failure of mkdir or writeFile for one document never makes extract
\* raise; when extract resolves every content document has been processed, and
\* the count it reports is the number of documents whose write succeeded.
C8_WriteFailureIsLocal ==
    /\ pc = "rejected" => idx = 0
    /\ pc = "resolved" =>
          /\ \A i \in 1..Len(topLevelDocuments) :
                Cardinality(EventsOf(topLevelDocuments[i].key)) = 1
          /\ reported = <<Cardinality({j \in DocWrites : log[j].ok})>>

\* extract has resolved although an earlier document failed and a later one was
\* written
C8_Witness ==
    /\ pc = "resolved"
    /\ \E i, j \in 1..Len(log) :
          /\ i < j
          /\ log[i].op \in {"mkdir", "doc"} /\ ~log[i].ok
          /\ log[j].op = "doc" /\ log[j].ok
    /\ reported # <<Len(topLevelDocuments)>>

\* C9: the converter is constructed exactly when the pack name is one of
\* actors, items, macros, rollTables; with any other name the extract command
\* ends with exit code 1 without a file-system call, the disk as it was.
C9_InvalidPackFailsBeforeIO ==
    LET p == PackOption(argv)
        valid == ~p.flag /\ p.val \in {"actors", "items", "macros", "rollTables"}
    IN  Len(argv) > 0 /\ argv[1] = Word("extract") /\ proc # "init" =>
           /\ (packName # "") <=> valid
           /\ ~valid => /\ proc = "exited" /\ exitCode = 1 /\ "error" \in printed
                        /\ ~fsTouched /\ fs = fs0 /\ pc = "idle" /\ del = "none"

\* `extract --pack widgets` has ended, with an output directory of an earlier
\* extraction on disk
C9_Witness ==
    /\ argv = <<Word("extract"), Opt("pack"), Word("widgets")>>
    /\ proc = "exited"
    /\ fs0 # {}

\* C10: `help`, `--help` and no command at all print the usage text and end with
\* exit code 0; an unknown command prints an error and the usage text and ends
\* with exit code 1.
C10_HelpAndUnknownCommand ==
    proc = "exited" =>
       /\ (Len(argv) = 0 \/ argv[1] \in {Word("help"), Opt("help")}) =>
             "usage" \in printed /\ exitCode = 0
       /\ (Len(argv) > 0 /\ argv[1] \notin {Word("help"), Opt("help"), Word("extract")}) =>
             {"unknown", "usage"} \subseteq printed /\ exitCode = 1


\* C11: every file extract writes, _folders.json and each document file, lies
\* inside the pack output root <outputRoot>/<pack>/, whatever the folder and
\* document names of the store are.
C11_WritesInsideOutputRoot ==
    \A i \in FolderWrites \cup DocWrites :
        log[i].ok =>
            /\ IsPrefix(OutputDir(packName), log[i].path)
            /\ Len(log[i].path) > Len(OutputDir(packName))

=============================================================================
